---- MODULE Spec2Model ----
(***************************************************************************)
(* ChatCVE scan orchestration engine: the Flask start endpoint             *)
(* (api/flask_backend.py) and RegistryBasedScanner (api/scan_service.py).  *)
(*                                                                         *)
(* Every start request runs scanner.start_scan in a thread of its own, so  *)
(* the steps of different requests interleave.  A string is a sequence of  *)
(* one-character strings.  A scan id "scan-<epoch second>" is modelled by  *)
(* the epoch second itself.                                                *)
(***************************************************************************)
EXTENDS Integers, Sequences, FiniteSets, TLC

(* ------------------------------ bounds -------------------------------- *)

\* a severity count large enough for the weighted sum to reach the cap
BigCount == 4000

\* longest string of the exhaustive validator inputs
MaxLen == 3

\* number of start requests / direct ScanImage calls issued to the process
MaxReq == 2

\* last second of the wall clock
MaxTime == 1

Req == 1..MaxReq

(* --------------------------- string helpers --------------------------- *)

Range(s) == {s[i] : i \in 1..Len(s)}

UpperChars == <<"A","B","C","D","E","F","G","H","I","J","K","L","M",
                "N","O","P","Q","R","S","T","U","V","W","X","Y","Z">>

LowerChars == <<"a","b","c","d","e","f","g","h","i","j","k","l","m",
                "n","o","p","q","r","s","t","u","v","w","x","y","z">>

DigitChars == {"0","1","2","3","4","5","6","7","8","9"}

\* str.strip() with no argument removes these (space, tab, newline, CR)
WhitespaceChars == {" ", "\t", "\n", "\r"}

\* str.lower() on one character
LowerChar(c) ==
    IF \E i \in 1..26 : UpperChars[i] = c
    THEN LowerChars[CHOOSE i \in 1..26 : UpperChars[i] = c]
    ELSE c

\* str.upper() on one character
UpperChar(c) ==
    IF \E i \in 1..26 : LowerChars[i] = c
    THEN UpperChars[CHOOSE i \in 1..26 : LowerChars[i] = c]
    ELSE c

\* str.upper()
Upper(s) == [i \in 1..Len(s) |-> UpperChar(s[i])]

\* str.lower()
Lower(s) == [i \in 1..Len(s) |-> LowerChar(s[i])]

\* str.strip()
Strip(s) ==
    LET keep == {i \in 1..Len(s) : s[i] \notin WhitespaceChars}
    IN  IF keep = {} THEN <<>>
        ELSE LET lo == CHOOSE i \in keep : \A j \in keep : i <= j
                 hi == CHOOSE i \in keep : \A j \in keep : j <= i
             IN  SubSeq(s, lo, hi)

\* str.startswith(p)
StartsWith(s, p) == Len(s) >= Len(p) /\ SubSeq(s, 1, Len(p)) = p

\* str.endswith(p)
EndsWith(s, p) == Len(s) >= Len(p) /\ SubSeq(s, Len(s) - Len(p) + 1, Len(s)) = p

\* p in s
Contains(s, p) == \E i \in 1..(Len(s) - Len(p) + 1) : SubSeq(s, i, i + Len(p) - 1) = p

\* the character class of re.match(r'^[a-zA-Z0-9._\-/:@]+$', image_ref)
RefChars == Range(UpperChars) \cup Range(LowerChars) \cup DigitChars
            \cup {".", "_", "-", "/", ":", "@"}

\* re.match(r'^[a-zA-Z0-9._\-/:@]+$', s): '$' also matches before one
\* trailing newline
MatchesRefPattern(s) ==
    LET body == IF Len(s) > 0 /\ s[Len(s)] = "\n" THEN SubSeq(s, 1, Len(s) - 1) ELSE s
    IN  Len(body) > 0 /\ \A i \in 1..Len(body) : body[i] \in RefChars

\* the validator without its character-class check
ValidateImageReferenceNoPattern(image_ref) ==
    LET ref == Strip(image_ref)
    IN  /\ ref # <<>>
        /\ ~StartsWith(ref, <<"#">>)
        /\ ~Contains(ref, <<".", ".">>)
        /\ ~StartsWith(ref, <<"/">>)
        /\ ~StartsWith(ref, <<"f","i","l","e",":">>)
        /\ ~Contains(Lower(ref), <<"%","2","f">>)
        /\ ~Contains(Lower(ref), <<"%","2","5","2","f">>)
        /\ ~StartsWith(ref, <<":">>)
        /\ ~Contains(ref, <<":", ":">>)
        /\ ~EndsWith(ref, <<":">>)

\* the validator rejecting every reference that holds a colon, not only
\* those that start with one
ValidateImageReferenceNoTag(image_ref) ==
    LET ref == Strip(image_ref)
    IN  /\ ref # <<>>
        /\ ~StartsWith(ref, <<"#">>)
        /\ ~Contains(ref, <<".", ".">>)
        /\ ~StartsWith(ref, <<"/">>)
        /\ ~StartsWith(ref, <<"f","i","l","e",":">>)
        /\ ~Contains(Lower(ref), <<"%","2","f">>)
        /\ ~Contains(Lower(ref), <<"%","2","5","2","f">>)
        /\ MatchesRefPattern(ref)
        /\ ~Contains(ref, <<":">>)
        /\ ~Contains(ref, <<":", ":">>)
        /\ ~EndsWith(ref, <<":">>)

\* the validator checking the string as given, not trimmed, and the encoded
\* slash in lower case only
ValidateImageReferenceUntrimmed(image_ref) ==
    LET ref == image_ref
    IN  /\ ref # <<>>
        /\ ~StartsWith(ref, <<"#">>)
        /\ ~Contains(ref, <<".", ".">>)
        /\ ~StartsWith(ref, <<"/">>)
        /\ ~StartsWith(ref, <<"f","i","l","e",":">>)
        /\ ~Contains(ref, <<"%","2","f">>)
        /\ ~Contains(ref, <<"%","2","5","2","f">>)
        /\ MatchesRefPattern(ref)
        /\ ~StartsWith(ref, <<":">>)
        /\ ~Contains(ref, <<":", ":">>)
        /\ ~EndsWith(ref, <<":">>)

\* RegistryBasedScanner._validate_image_reference
ValidateImageReference(image_ref) ==
    LET ref == Strip(image_ref)
    IN  /\ ref # <<>>
        /\ ~StartsWith(ref, <<"#">>)
        /\ ~Contains(ref, <<".", ".">>)
        /\ ~StartsWith(ref, <<"/">>)
        /\ ~StartsWith(ref, <<"f","i","l","e",":">>)
        /\ ~Contains(Lower(ref), <<"%","2","f">>)
        /\ ~Contains(Lower(ref), <<"%","2","5","2","f">>)
        /\ MatchesRefPattern(ref)
        /\ ~StartsWith(ref, <<":">>)
        /\ ~Contains(ref, <<":", ":">>)
        /\ ~EndsWith(ref, <<":">>)

\* image_ref.replace('/', '-').replace(':', '-')
Sanitize(ref) == [i \in 1..Len(ref) |-> IF ref[i] \in {"/", ":"} THEN "-" ELSE ref[i]]

(* ------------------------------ inputs -------------------------------- *)

\* session names offered by callers
Names == {"alpha", "beta"}

\* the names request r may carry: only equality of names matters, so the
\* first request always carries the first name
NamesFor(r) == IF r = 1 THEN {"alpha"} ELSE Names

\* "nginx"
TNginx == <<"n">>

\* "  nginx:latest  "
TPadded == <<" ", "n", ":", "l", " ">>

\* "repo/nginx"
TRepo == <<"r", "/", "n">>

\* "nginx; rm -rf /"
TInject == <<"n", ";", "r">>

\* "repo:nginx"
TTagged == <<"r", ":", "n">>

\* "repo-nginx"
TDashed == <<"r", "-", "n">>

\* target lists whose images share one working directory
WorkdirTargetLists ==
    {<<TRepo, TTagged>>, <<TTagged, TDashed>>, <<TDashed, TRepo, TNginx>>, <<TRepo, TNginx>>}

\* target lists posted to the start endpoint
TargetLists == {<<>>, <<TInject>>, <<TPadded, TInject>>}

\* target lists of a direct caller of scanner.start_scan
DirectTargetLists == {<<>>, <<TNginx, TInject, TRepo>>}

\* image references handed to _scan_single_image by a direct caller
DirectTargets == {TInject, TPadded, TRepo}

\* severity strings as the matcher spells them
SevCritical == <<"C","r","i","t","i","c","a","l">>

SevNegligible == <<"N","e","g","l","i","g","i","b","l","e">>

MCritical == [id |-> "CVE-1", severity |-> SevCritical, package |-> "openssl", version |-> "1.0"]

MNegligible == [id |-> "CVE-2", severity |-> SevNegligible, package |-> "zlib", version |-> "1.2"]

MHigh == [id |-> "CVE-3", severity |-> <<"H","I","G","H">>, package |-> "curl", version |-> "7.0"]

MMedium == [id |-> "CVE-4", severity |-> <<"M","e","d","i","u","m">>, package |-> "bash", version |-> "5.0"]

\* What the external tools do during one _scan_single_image call:
\*   ctx, syft, grype: exit status of the command run by _run_command
\*   pull: subprocess.run(pull_cmd, timeout=120) exits 0, exits # 0, or
\*         raises (TimeoutExpired, FileNotFoundError)
\*   sbom, gout: what the tool leaves at its --file path
\*         ("none": nothing written, "empty", "garbage": not JSON, "json")
\*   artifacts, matches: the content of the JSON files
RunOk ==
    [ctx |-> "ok", pull |-> "ok", syft |-> "ok", sbom |-> "json", artifacts |-> 2,
     grype |-> "ok", gout |-> "json", matches |-> <<MCritical, MNegligible>>]

RunClean == [RunOk EXCEPT !.matches = <<>>]

RunMixed == [RunOk EXCEPT !.matches = <<MCritical, MHigh, MNegligible, MMedium>>]

RunPullFails == [RunOk EXCEPT !.ctx = "fail", !.pull = "fail"]

RunPullRaises == [RunOk EXCEPT !.pull = "exc"]

RunSyftFails == [RunOk EXCEPT !.syft = "fail", !.sbom = "none"]

RunNoSbom == [RunOk EXCEPT !.sbom = "none"]

RunEmptySbom == [RunOk EXCEPT !.sbom = "empty"]

RunBadSbom == [RunOk EXCEPT !.sbom = "garbage"]

RunGrypeFails == [RunOk EXCEPT !.grype = "fail", !.gout = "none"]

RunNoGrypeOutput == [RunOk EXCEPT !.gout = "none"]

RunBadGrypeOutput == [RunOk EXCEPT !.gout = "garbage"]

\* the SBOM generator never exits
RunSyftHangs == [RunOk EXCEPT !.syft = "hang", !.sbom = "none"]

\* no tool has been run
NoRun == [RunOk EXCEPT !.ctx = "none", !.pull = "none", !.syft = "none", !.sbom = "none",
                       !.grype = "none", !.gout = "none"]

\* tool behaviours during a direct _scan_single_image call
ToolRuns ==
    {RunOk, RunClean, RunMixed, RunPullFails, RunPullRaises, RunSyftFails, RunNoSbom, RunEmptySbom,
     RunBadSbom, RunGrypeFails, RunNoGrypeOutput, RunBadGrypeOutput}

\* tool behaviours during the images of a session
SessionRuns == {RunOk, RunPullFails}

(* ------------------------------- state -------------------------------- *)

VARIABLES
    now,          \* wall clock, whole seconds (int(datetime.now().timestamp()))
    usec,         \* sub-second part of the next datetime.now() of a store call
    active_scans, \* scanner.active_scans: scan id -> ScanProgress
    scan_metadata,\* table scan_metadata, rows in insertion (rowid) order
    app_patrol,   \* table app_patrol, rows in insertion (rowid) order
    th,           \* per request: the locals of its handler / scan thread
    spawned,      \* per request: the subprocesses it spawned, in order
    resp          \* per request: the HTTP response of the start endpoint

vars == <<now, usec, active_scans, scan_metadata, app_patrol, th, spawned, resp>>

\* locals of a request that has not been issued yet
IdleThread ==
    [pc |-> "idle", kind |-> "none", name |-> "", targets |-> <<>>, sid |-> 0,
     t0 |-> 0, valid_targets |-> <<>>, i |-> 0, image_ref |-> <<>>,
     files |-> [x \in {} |-> x], result |-> <<>>, scan_results |-> <<>>,
     run |-> NoRun, delete_id |-> <<>>, stored |-> "none", risk_score |-> -1, ret |-> "none", exc |-> "none"]

Init ==
    /\ now = 0
    /\ usec = 0
    /\ active_scans = [x \in {} |-> x]
    /\ scan_metadata = <<>>
    /\ app_patrol = <<>>
    /\ th = [r \in Req |-> IdleThread]
    /\ spawned = [r \in Req |-> <<>>]
    /\ resp = [r \in Req |-> "none"]

(* ------------------------------ logging ------------------------------- *)

\* LogEntry (its timestamp is its position in the list)
Entry(level, message, arg) == [level |-> level, message |-> message, arg |-> arg]

\* RegistryBasedScanner._log, applied to each entry of es in order
LogAll(scans, scan_id, es) ==
    IF scan_id \in DOMAIN scans
    THEN [scans EXCEPT ![scan_id].logs = @ \o es]
    ELSE scans

\* the entries _run_command appends for one command
RunCommandLogs(description, arg, outcome) ==
    <<Entry("info", description, arg),
      Entry("info", "Command", arg),
      Entry("info", "Working directory", <<>>),
      Entry("info", "PATH", <<>>)>>
    \o (IF outcome = "ok"
        THEN <<Entry("success", "Completed", arg)>>
        ELSE <<Entry("error", "Failed", arg),
               Entry("error", "Return code", <<>>),
               Entry("error", "stderr", <<>>),
               Entry("error", "stdout", <<>>)>>)

\* one spawned subprocess: the tool, the image reference it is run for, and
\* the argument built from the reference on its command line
Spawn(tool, image, arg) == [tool |-> tool, image |-> image, arg |-> arg]

(* ------------------------- _scan_single_image ------------------------- *)

\* f"sbom-{image_ref.replace('/', '-').replace(':', '-')}.json"
SbomFile(ref) == <<"sbom-">> \o Sanitize(ref)

\* f"vulns-{image_ref.replace('/', '-').replace(':', '-')}.json"
GrypeOutputFile(ref) == <<"vulns-">> \o Sanitize(ref)

\* the workspace after a tool wrote (or did not write) the file at path
WriteFile(files, path, kind, artifacts, matches) ==
    IF kind = "none" THEN files
    ELSE [x \in DOMAIN files \cup {path} |->
            IF x = path THEN [kind |-> kind, artifacts |-> artifacts, matches |-> matches]
            ELSE files[x]]

\* the four severity tiers, lower case
Critical == <<"c","r","i","t","i","c","a","l">>

High == <<"h","i","g","h">>

Medium == <<"m","e","d","i","u","m">>

Low == <<"l","o","w">>

\* number of findings of a list whose severity is sev
CountSeverity(vulns, sev) == Cardinality({k \in 1..Len(vulns) : vulns[k].severity = sev})

\* the findings with the severity as the matcher spells it
FindingsCaseSensitive(matches) ==
    [k \in 1..Len(matches) |->
        [id |-> matches[k].id, severity |-> matches[k].severity,
         package |-> matches[k].package, version |-> matches[k].version]]

\* lines 363-375: one finding per match, severity lower-cased
Findings(matches) ==
    [k \in 1..Len(matches) |->
        [id |-> matches[k].id, severity |-> Lower(matches[k].severity),
         package |-> matches[k].package, version |-> matches[k].version]]

\* lines 351-403: the result built from the matcher's output file
ImageResult(ref, package_count, files) ==
    LET path    == GrypeOutputFile(ref)
        parsed  == path \in DOMAIN files /\ files[path].kind = "json"
        matches == IF parsed THEN files[path].matches ELSE <<>>
        vulns   == Findings(matches)
    IN  [image |-> ref,
         packages |-> package_count,
         vulnerabilities |-> Len(matches),
         severity_counts |-> [critical |-> CountSeverity(vulns, Critical),
                              high     |-> CountSeverity(vulns, High),
                              medium   |-> CountSeverity(vulns, Medium),
                              low      |-> CountSeverity(vulns, Low)],
         exploitable_count |-> CountSeverity(vulns, Critical) + CountSeverity(vulns, High),
         vuln_details |-> vulns]

\* the entries logged while the matcher's output is parsed (lines 356-385)
ParseLogs(ref, files) ==
    LET path == GrypeOutputFile(ref)
    IN  IF path \notin DOMAIN files THEN <<>>
        ELSE IF files[path].kind # "json"
        THEN <<Entry("error", "Could not parse vulnerability results", ref)>>
        ELSE <<Entry("info", "Found vulnerabilities", ref)>>
             \o (IF Len(files[path].matches) > 0
                 THEN <<Entry("warn", "Severity breakdown", ref)>> ELSE <<>>)

\* what one _scan_single_image call leaves behind: its return value (<<>> is
\* None), the entries it logs, the subprocesses it spawns, the workspace
Outcome(result, logs, spawns, files) ==
    [result |-> result, logs |-> logs, spawns |-> spawns, files |-> files]

\* lines 335-403: run the matcher on the SBOM file, parse its output
GrypeStage(ref, package_count, files, e, logs, spawns) ==
    LET files2  == IF e.grype = "ok"
                   THEN WriteFile(files, GrypeOutputFile(ref), e.gout, 0, e.matches)
                   ELSE files
        logs2   == logs \o RunCommandLogs("Scanning vulnerabilities", ref, e.grype)
        spawns2 == Append(spawns, Spawn("grype", ref, SbomFile(ref)))
    IN  IF e.grype # "ok"
        THEN Outcome(<<>>, logs2, spawns2, files2)
        ELSE Outcome(<<ImageResult(ref, package_count, files2)>>,
                     logs2 \o ParseLogs(ref, files2), spawns2, files2)

\* lines 304-333: run the SBOM generator, check that its file is there and
\* non-empty, count the artifacts
SyftStage(ref, files, e, logs, spawns) ==
    LET path    == SbomFile(ref)
        files2  == IF e.syft = "ok" THEN WriteFile(files, path, e.sbom, e.artifacts, <<>>)
                   ELSE files
        logs2   == logs \o RunCommandLogs("Generating SBOM", ref, e.syft)
        spawns2 == Append(spawns, Spawn("syft", ref, ref))
    IN  IF e.syft # "ok"
        THEN Outcome(<<>>, logs2, spawns2, files2)
        ELSE IF path \notin DOMAIN files2 \/ files2[path].kind = "empty"
        THEN Outcome(<<>>, logs2 \o <<Entry("error", "SBOM file not generated", ref)>>,
                     spawns2, files2)
        ELSE IF files2[path].kind = "json"
        THEN GrypeStage(ref, files2[path].artifacts, files2, e,
                        logs2 \o <<Entry("success", "Found packages", ref)>>, spawns2)
        ELSE GrypeStage(ref, 0, files2, e,
                        logs2 \o <<Entry("warn", "Could not parse SBOM", ref)>>, spawns2)

\* the entries logged around subprocess.run(pull_cmd, ...)
PullLogs(ref, outcome) ==
    <<Entry("info", "Running: Pulling Docker image", ref), Entry("info", "Command", ref)>>
    \o (IF outcome = "ok" THEN <<Entry("success", "Completed: Pulling Docker image", ref)>>
        ELSE IF outcome = "fail"
        THEN <<Entry("error", "Failed: Pulling Docker image", ref),
               Entry("error", "Return code", <<>>),
               Entry("error", "stderr", <<>>),
               Entry("error", "stdout", <<>>)>>
        ELSE <<Entry("error", "Exception pulling Docker image", <<>>)>>)

\* the pull stage going on to the SBOM generator whatever the pull did
PullStageUngated(ref, files, e, logs) ==
    LET logs2  == logs \o <<Entry("info", "Scanning image", ref)>>
                  \o RunCommandLogs("Setting Docker context to default", <<>>, e.ctx)
                  \o PullLogs(ref, e.pull)
        spawns == <<Spawn("docker context", <<>>, <<>>), Spawn("docker pull", ref, ref)>>
    IN  SyftStage(ref, files, e, logs2, spawns)

\* lines 275-302: docker context use default (its outcome is ignored), then
\* docker pull with a 120 s timeout
PullStage(ref, files, e, logs) ==
    LET logs2  == logs \o <<Entry("info", "Scanning image", ref)>>
                  \o RunCommandLogs("Setting Docker context to default", <<>>, e.ctx)
                  \o PullLogs(ref, e.pull)
        spawns == <<Spawn("docker context", <<>>, <<>>), Spawn("docker pull", ref, ref)>>
    IN  IF e.pull # "ok"
        THEN Outcome(<<>>, logs2, spawns, files)
        ELSE SyftStage(ref, files, e, logs2, spawns)

\* _scan_single_image without its check of the reference
ScanSingleImageUnchecked(image_ref, files, e) ==
    LET ref == Strip(image_ref)
    IN  PullStage(ref, files, e, <<Entry("info", "Cleaned image reference", ref)>>)

\* RegistryBasedScanner._scan_single_image: strip the reference, stop on an
\* invalid one, else pull, generate the SBOM, match
ScanSingleImage(image_ref, files, e) ==
    LET ref     == Strip(image_ref)
        cleaned == <<Entry("info", "Cleaned image reference", ref)>>
    IN  IF ~ValidateImageReference(ref)
        THEN Outcome(<<>>, cleaned \o <<Entry("error", "Invalid image reference", ref)>>,
                     <<>>, files)
        ELSE PullStage(ref, files, e, cleaned)

\* a caller awaits scanner._scan_single_image(scan_id, target, temp_dir) with
\* a scan id nobody registered
DirectScanImage(r) ==
    /\ th[r].pc = "idle"
    /\ \E target \in DirectTargets, e \in ToolRuns :
         LET out == ScanSingleImage(target, th[r].files, e)
         IN  /\ active_scans' = LogAll(active_scans, -r, out.logs)
             /\ spawned' = [spawned EXCEPT ![r] = @ \o out.spawns]
             /\ th' = [th EXCEPT ![r].pc = "done", ![r].kind = "scan_image",
                                 ![r].sid = -r, ![r].image_ref = target,
                                 ![r].files = out.files, ![r].result = out.result,
                                 ![r].run = e]
    /\ UNCHANGED <<now, usec, scan_metadata, app_patrol, resp>>

\* callers that only scan single images
NextImage == \E r \in Req : DirectScanImage(r)

ImageSpec == Init /\ [][NextImage]_vars

(* ------------------------- the start endpoint ------------------------- *)

\* the wall clock reaches the next second
Tick ==
    /\ now < MaxTime
    /\ now' = now + 1
    /\ UNCHANGED <<usec, active_scans, scan_metadata, app_patrol, th, spawned, resp>>

\* SELECT COUNT(*) FROM scan_metadata WHERE user_scan_name = ?  (count > 0)
NameExists(name) == \E k \in 1..Len(scan_metadata) : scan_metadata[k].user_scan_name = name

\* scan_id = f"scan-{int(datetime.now().timestamp())}"
NewScanId == now

\* the endpoint with the scan thread started before the checks are made
HttpStartScanThenCheck(r) ==
    /\ th[r].pc = "idle"
    /\ \E name \in NamesFor(r), targets \in TargetLists :
         /\ resp' = [resp EXCEPT ![r] =
                        IF targets = <<>> THEN "400 No targets provided"
                        ELSE IF NameExists(name) THEN "400 Scan name already exists"
                        ELSE "200 started"]
         /\ th' = [th EXCEPT ![r].pc = "start", ![r].kind = "http",
                             ![r].name = name, ![r].targets = targets,
                             ![r].sid = NewScanId]
    /\ UNCHANGED <<now, usec, active_scans, scan_metadata, app_patrol, spawned>>

\* flask_backend.start_scan, POST /api/scans/start: reject an empty target
\* list and a name already in scan_metadata, else start the scan thread and
\* answer with the scan id
HttpStartScan(r) ==
    /\ th[r].pc = "idle"
    /\ \E name \in NamesFor(r), targets \in TargetLists :
         IF targets = <<>>
         THEN /\ resp' = [resp EXCEPT ![r] = "400 No targets provided"]
              /\ th' = [th EXCEPT ![r].pc = "done", ![r].kind = "http",
                                  ![r].name = name, ![r].targets = targets]
         ELSE IF NameExists(name)
         THEN /\ resp' = [resp EXCEPT ![r] = "400 Scan name already exists"]
              /\ th' = [th EXCEPT ![r].pc = "done", ![r].kind = "http",
                                  ![r].name = name, ![r].targets = targets]
         ELSE /\ resp' = [resp EXCEPT ![r] = "200 started"]
              /\ th' = [th EXCEPT ![r].pc = "start", ![r].kind = "http",
                                  ![r].name = name, ![r].targets = targets,
                                  ![r].sid = NewScanId]
    /\ UNCHANGED <<now, usec, active_scans, scan_metadata, app_patrol, spawned>>

\* a caller awaits scanner.start_scan with a scan id of its own, unique to
\* the call (the endpoint never produces the ids -1, -2, ...)
DirectStartScan(r) ==
    /\ th[r].pc = "idle"
    /\ \E name \in NamesFor(r), targets \in DirectTargetLists :
         th' = [th EXCEPT ![r].pc = "start", ![r].kind = "start_scan",
                          ![r].name = name, ![r].targets = targets, ![r].sid = -r]
    /\ UNCHANGED <<now, usec, active_scans, scan_metadata, app_patrol, spawned, resp>>

(* ------------------------------ start_scan ---------------------------- *)

\* the keys start_scan adds to scan_metadata later are not set yet
NoMetadata ==
    [scan_status |-> "unset", scan_duration |-> -1, total_packages_scanned |-> -1,
     total_vulnerabilities_found |-> -1, critical_count |-> -1, high_count |-> -1,
     medium_count |-> -1, low_count |-> -1, exploitable_count |-> -1]

\* ScanProgress(...) as start_scan builds it
NewScanProgress(name, targets) ==
    [name |-> name, status |-> "initializing", progress |-> 0,
     current_step |-> "Preparing scan environment...", logs |-> <<>>,
     targets |-> targets, current_target |-> <<>>, total_targets |-> Len(targets),
     completed_targets |-> 0, scan_metadata |-> NoMetadata]

\* start_scan lines 446-474: build the ScanProgress, register it under the
\* scan id, log twice
Register(r) ==
    /\ th[r].pc = "start"
    /\ LET sid == th[r].sid
           reg == [x \in DOMAIN active_scans \cup {sid} |->
                     IF x = sid THEN NewScanProgress(th[r].name, th[r].targets)
                     ELSE active_scans[x]]
       IN  active_scans' = LogAll(reg, sid,
               <<Entry("info", "Starting registry-based scan", <<>>),
                 Entry("info", "Targets", <<>>)>>)
    /\ th' = [th EXCEPT ![r].pc = "mkdtemp", ![r].t0 = now]
    /\ UNCHANGED <<now, usec, scan_metadata, app_patrol, spawned, resp>>

\* the valid targets of a list, in list order
RECURSIVE ValidOf(_)
ValidOf(targets) ==
    IF targets = <<>> THEN <<>>
    ELSE (IF ValidateImageReference(Head(targets)) THEN <<Head(targets)>> ELSE <<>>)
         \o ValidOf(Tail(targets))

\* the log entries of the validation loop, one per target in list order
ValidationLogs(targets) ==
    [k \in 1..Len(targets) |->
        IF ValidateImageReference(targets[k])
        THEN Entry("success", "Valid image reference", targets[k])
        ELSE Entry("error", "Invalid image reference", targets[k])]

\* start_scan lines 476-498: tempfile.TemporaryDirectory() raises OSError,
\* or it is entered: status running, progress 10, every target validated,
\* and an exception raised when none is valid
ValidateTargets(r) ==
    /\ th[r].pc = "mkdtemp"
    /\ LET sid   == th[r].sid
           valid == ValidOf(th[r].targets)
           s1    == [LogAll(active_scans, sid,
                            <<Entry("info", "Created temporary workspace", <<>>)>>)
                     EXCEPT
                       ![sid].status = "running",
                       ![sid].progress = 10,
                       ![sid].current_step = "Validating container image references..."]
           s2    == LogAll(s1, sid, ValidationLogs(th[r].targets))
       IN  \/ /\ th' = [th EXCEPT ![r].pc = "except", ![r].exc = "OSError"]
              /\ UNCHANGED active_scans
           \/ /\ valid = <<>>
              /\ active_scans' = s2
              /\ th' = [th EXCEPT ![r].pc = "except", ![r].valid_targets = valid,
                                  ![r].exc = "No valid container image references found"]
           \/ /\ valid # <<>>
              /\ active_scans' = LogAll(s2, sid, <<Entry("info", "Validated", <<>>)>>)
              /\ th' = [th EXCEPT ![r].pc = "loop", ![r].valid_targets = valid,
                                  ![r].i = 0, ![r].scan_results = <<>>]
    /\ UNCHANGED <<now, usec, scan_metadata, app_patrol, spawned, resp>>

\* 20 + (60 * i // len(valid_targets))
TargetProgress(i, n) == 20 + ((60 * i) \div n)

\* start_scan lines 502-513: the i-th valid target (0-based): current target
\* and progress, _scan_single_image, then count the result or log the failure
ScanTargetWith(r, runs) ==
    /\ th[r].pc = "loop"
    /\ th[r].i < Len(th[r].valid_targets)
    /\ \E e \in runs :
         LET sid    == th[r].sid
             target == th[r].valid_targets[th[r].i + 1]
             out    == ScanSingleImage(target, th[r].files, e)
             s1     == [active_scans EXCEPT
                          ![sid].current_target = target,
                          ![sid].progress = TargetProgress(th[r].i, Len(th[r].valid_targets)),
                          ![sid].current_step = "Scanning..."]
             s2     == LogAll(s1, sid, out.logs)
         IN  /\ spawned' = [spawned EXCEPT ![r] = @ \o out.spawns]
             /\ IF out.result # <<>>
                THEN /\ active_scans' = LogAll(
                            [s2 EXCEPT ![sid].completed_targets = @ + 1], sid,
                            <<Entry("success", "Completed scan", target)>>)
                     /\ th' = [th EXCEPT ![r].i = @ + 1, ![r].files = out.files,
                                         ![r].run = e,
                                         ![r].scan_results = @ \o out.result]
                ELSE /\ active_scans' = LogAll(s2, sid,
                            <<Entry("error", "Failed to scan", target)>>)
                     /\ th' = [th EXCEPT ![r].i = @ + 1, ![r].files = out.files,
                                         ![r].run = e]
    /\ UNCHANGED <<now, usec, scan_metadata, app_patrol, resp>>

\* the next target of a session, the tools behaving as in SessionRuns
ScanTarget(r) == ScanTargetWith(r, SessionRuns)

\* the next target of a session, the tools behaving in any way of ToolRuns
ScanTargetAnyRun(r) == ScanTargetWith(r, ToolRuns)

\* what _scan_single_image has logged and spawned for a valid reference when
\* syft never exits: _run_command awaits process.communicate() with no
\* timeout (line 202), so the call never returns
BlockedOnSyft(image_ref) ==
    LET ref == Strip(image_ref)
    IN  [logs   |-> <<Entry("info", "Cleaned image reference", ref),
                      Entry("info", "Scanning image", ref)>>
                    \o RunCommandLogs("Setting Docker context to default", <<>>, "ok")
                    \o PullLogs(ref, "ok")
                    \o SubSeq(RunCommandLogs("Generating SBOM", ref, "ok"), 1, 4),
         spawns |-> <<Spawn("docker context", <<>>, <<>>), Spawn("docker pull", ref, ref),
                      Spawn("syft", ref, ref)>>]

\* start_scan lines 502-507 for the next valid target, whose syft process
\* never exits: the thread stays in await process.communicate()
ScanTargetBlocks(r) ==
    /\ th[r].pc = "loop"
    /\ th[r].i < Len(th[r].valid_targets)
    /\ LET sid    == th[r].sid
           target == th[r].valid_targets[th[r].i + 1]
           out    == BlockedOnSyft(target)
           s1     == [active_scans EXCEPT
                        ![sid].current_target = target,
                        ![sid].progress = TargetProgress(th[r].i, Len(th[r].valid_targets)),
                        ![sid].current_step = "Scanning..."]
       IN  /\ active_scans' = LogAll(s1, sid, out.logs)
           /\ spawned' = [spawned EXCEPT ![r] = @ \o out.spawns]
           /\ th' = [th EXCEPT ![r].pc = "communicate", ![r].run = RunSyftHangs]
    /\ UNCHANGED <<now, usec, scan_metadata, app_patrol, resp>>

\* sum(xs)
RECURSIVE Sum(_)
Sum(xs) == IF xs = <<>> THEN 0 ELSE Head(xs) + Sum(Tail(xs))

\* start_scan lines 519-550: the metrics written into scan_metadata
FinalMetadata(results, duration) ==
    LET idx == 1..Len(results)
    IN  [scan_status |-> "SUCCESS", scan_duration |-> duration,
         total_packages_scanned |-> Sum([k \in idx |-> results[k].packages]),
         total_vulnerabilities_found |-> Sum([k \in idx |-> results[k].vulnerabilities]),
         critical_count |-> Sum([k \in idx |-> results[k].severity_counts.critical]),
         high_count |-> Sum([k \in idx |-> results[k].severity_counts.high]),
         medium_count |-> Sum([k \in idx |-> results[k].severity_counts.medium]),
         low_count |-> Sum([k \in idx |-> results[k].severity_counts.low]),
         exploitable_count |-> Sum([k \in idx |-> results[k].exploitable_count])]

\* metadata.get(key, default) for a key start_scan may not have set
Get(value, default) == IF value = -1 THEN default ELSE value

\* the scan_metadata row of _store_scan_results (lines 601-633)
MetadataRow(ts, scan_name, results, metadata) ==
    [scan_timestamp |-> ts, user_scan_name |-> scan_name, image_count |-> Len(results),
     scan_duration |-> Get(metadata.scan_duration, 0),
     total_packages_scanned |-> Get(metadata.total_packages_scanned, 0),
     total_vulnerabilities_found |-> Get(metadata.total_vulnerabilities_found, 0),
     scan_status |-> IF metadata.scan_status = "unset" THEN "SUCCESS" ELSE metadata.scan_status,
     critical_count |-> Get(metadata.critical_count, 0),
     high_count |-> Get(metadata.high_count, 0),
     medium_count |-> Get(metadata.medium_count, 0),
     low_count |-> Get(metadata.low_count, 0),
     exploitable_count |-> Get(metadata.exploitable_count, 0)]

\* 'HIGH' if n > 10 else 'MEDIUM' if n > 0 else 'LOW'
SummarySeverity(n) == IF n > 10 THEN Upper(High) ELSE IF n > 0 THEN Upper(Medium) ELSE Upper(Low)

\* the rows of one result with datetime.now() sampled again for every
\* finding row
ResultRowsResampled(ts, result) ==
    <<[kind |-> "summary", IMAGE_TAG |-> result.image, VULNERABILITY |-> "",
       count |-> result.vulnerabilities, SEVERITY |-> SummarySeverity(result.vulnerabilities),
       NAME |-> "packages", packages |-> result.packages, INSTALLED |-> "1.0",
       DATE_ADDED |-> ts]>>
    \o [k \in 1..Len(result.vuln_details) |->
          [kind |-> "finding", IMAGE_TAG |-> result.image,
           VULNERABILITY |-> result.vuln_details[k].id, count |-> 0,
           SEVERITY |-> Upper(result.vuln_details[k].severity),
           NAME |-> result.vuln_details[k].package, packages |-> 0,
           INSTALLED |-> result.vuln_details[k].version,
           DATE_ADDED |-> [ts EXCEPT !.us = @ + k]]]

\* the app_patrol rows of one result (lines 636-663): the summary row, whose
\* VULNERABILITY column is the count and whose NAME is "<packages> packages",
\* then one row per finding
ResultRows(ts, result) ==
    <<[kind |-> "summary", IMAGE_TAG |-> result.image, VULNERABILITY |-> "",
       count |-> result.vulnerabilities, SEVERITY |-> SummarySeverity(result.vulnerabilities),
       NAME |-> "packages", packages |-> result.packages, INSTALLED |-> "1.0",
       DATE_ADDED |-> ts]>>
    \o [k \in 1..Len(result.vuln_details) |->
          [kind |-> "finding", IMAGE_TAG |-> result.image,
           VULNERABILITY |-> result.vuln_details[k].id, count |-> 0,
           SEVERITY |-> Upper(result.vuln_details[k].severity),
           NAME |-> result.vuln_details[k].package, packages |-> 0,
           INSTALLED |-> result.vuln_details[k].version, DATE_ADDED |-> ts]]

\* the app_patrol rows of all results, in insertion order
RECURSIVE AllRows(_, _)
AllRows(ts, results) ==
    IF results = <<>> THEN <<>>
    ELSE ResultRows(ts, Head(results)) \o AllRows(ts, Tail(results))

\* start_scan lines 515-553: all targets done: progress 90, the final
\* metrics, then _store_scan_results: one timestamp, the metadata row, the
\* rows of every result, commit; an sqlite error is logged and nothing is
\* committed
PersistResults(r) ==
    /\ th[r].pc = "loop"
    /\ th[r].i = Len(th[r].valid_targets)
    /\ LET sid == th[r].sid
           ts  == [sec |-> now, us |-> usec]
           s1  == [active_scans EXCEPT
                     ![sid].progress = 90,
                     ![sid].current_step = "Storing results in database...",
                     ![sid].scan_metadata = FinalMetadata(th[r].scan_results, now - th[r].t0)]
       IN  \/ /\ scan_metadata' = Append(scan_metadata,
                     MetadataRow(ts, th[r].name, th[r].scan_results, s1[sid].scan_metadata))
              /\ app_patrol' = app_patrol \o AllRows(ts, th[r].scan_results)
              /\ active_scans' = LogAll(s1, sid, <<Entry("success", "Stored results", <<>>)>>)
              /\ th' = [th EXCEPT ![r].pc = "set_completed", ![r].stored = "ok"]
           \/ /\ active_scans' = LogAll(s1, sid,
                     <<Entry("error", "Failed to store results in database", <<>>)>>)
              /\ th' = [th EXCEPT ![r].pc = "set_completed", ![r].stored = "failed"]
              /\ UNCHANGED <<scan_metadata, app_patrol>>
    /\ usec' = usec + 1
    /\ UNCHANGED <<now, spawned, resp>>

\* start_scan line 556
SetCompleted(r) ==
    /\ th[r].pc = "set_completed"
    /\ active_scans' = [active_scans EXCEPT ![th[r].sid].status = "completed"]
    /\ th' = [th EXCEPT ![r].pc = "set_progress_100"]
    /\ UNCHANGED <<now, usec, scan_metadata, app_patrol, spawned, resp>>

\* start_scan lines 557-567: progress 100, the closing log entries, return
\* True (leaving the with block removes the temporary directory)
Complete(r) ==
    /\ th[r].pc = "set_progress_100"
    /\ active_scans' = LogAll(
           [active_scans EXCEPT ![th[r].sid].progress = 100,
                                ![th[r].sid].current_step = "Scan completed successfully"],
           th[r].sid,
           <<Entry("success", "Registry-based scan completed successfully", <<>>),
             Entry("info", "Total packages analyzed", <<>>),
             Entry("info", "Total vulnerabilities found", <<>>),
             Entry("info", "Scan duration", <<>>),
             Entry("info", "Risk score", <<>>),
             Entry("info", "No Docker daemon required", <<>>)>>)
    /\ th' = [th EXCEPT ![r].pc = "done", ![r].ret = "True"]
    /\ UNCHANGED <<now, usec, scan_metadata, app_patrol, spawned, resp>>

\* start_scan lines 569-587: the except clause: duration and FAILED into
\* the metadata, status failed, two log entries, return False
HandleFailure(r) ==
    /\ th[r].pc = "except"
    /\ LET sid == th[r].sid
           s1  == [active_scans EXCEPT
                     ![sid].scan_metadata.scan_duration = now - th[r].t0,
                     ![sid].scan_metadata.scan_status = "FAILED",
                     ![sid].status = "failed",
                     ![sid].current_step = th[r].exc]
       IN  active_scans' = LogAll(s1, sid,
               <<Entry("error", "Scan failed", <<>>),
                 Entry("info", "Scan duration before failure", <<>>)>>)
    /\ th' = [th EXCEPT ![r].pc = "done", ![r].ret = "False"]
    /\ UNCHANGED <<now, usec, scan_metadata, app_patrol, spawned, resp>>

(* ------------------------------ readers ------------------------------- *)

\* RegistryBasedScanner.get_scan_progress: the entry (<<>> is None)
GetScanProgress(scan_id) ==
    IF scan_id \in DOMAIN active_scans THEN <<active_scans[scan_id]>> ELSE <<>>

\* RegistryBasedScanner.get_scan_logs
GetScanLogs(scan_id) ==
    IF scan_id \in DOMAIN active_scans THEN active_scans[scan_id].logs ELSE <<>>

\* timestamp[:19] / substr(DATE_ADDED, 1, 19) of a datetime.now().isoformat()
\* string "YYYY-MM-DDTHH:MM:SS.ffffff": the 19 characters of the date and
\* time down to the second, without the microseconds
Prefix19(timestamp) == [chars |-> 19, upto |-> timestamp.sec]

\* timestamp[:15], "YYYY-MM-DDTHH:M": the 15 characters of the date and time
\* down to the tens of minutes
Prefix15(timestamp) == [chars |-> 15, upto |-> timestamp.sec \div 600]

(* ------------------------- the specification -------------------------- *)

Next ==
    \/ Tick
    \/ \E r \in Req : HttpStartScan(r)
    \/ \E r \in Req : DirectStartScan(r)
    \/ \E r \in Req : DirectScanImage(r)
    \/ \E r \in Req : Register(r)
    \/ \E r \in Req : ValidateTargets(r)
    \/ \E r \in Req : ScanTarget(r)
    \/ \E r \in Req : ScanTargetBlocks(r)
    \/ \E r \in Req : PersistResults(r)
    \/ \E r \in Req : SetCompleted(r)
    \/ \E r \in Req : Complete(r)
    \/ \E r \in Req : HandleFailure(r)

Spec == Init /\ [][Next]_vars

(* ------------- direct calls of _validate_image_reference -------------- *)

\* the characters of the exhaustive inputs: a letter, the separators of a
\* reference, a shell metacharacter, a blank and a newline
ValidatorAlphabet == {"n", ".", "/", ":", ";", " ", "\n"}

\* the shell metacharacters
MetaChars ==
    {";", "|", "&", "$", "`", ">", "<", "(", ")", "{", "}", "'", "\"", "\\",
     "!", "*", "#", "^", "~", "=", "+", "?"}

\* the control characters among the inputs
ControlChars == {"\t", "\n", "\r"}

\* the longer inputs: one per metacharacter and control character, and the
\* references and rejected forms of tests/unit/test_image_validation.py
LongerInputs ==
    {<<"n", c, "n">> : c \in MetaChars \cup ControlChars}
    \cup {<<c, "n", c>> : c \in ControlChars}
    \cup {<<"f","i","l","e",":","n">>, <<"f","i","l","e","/","n">>,
          <<"n","%","2","f","n">>, <<"n","%","2","F","n">>,
          <<"n","%","2","5","2","f","n">>, <<"n","%","2","5","2","F","n">>,
          <<"#"," ","n">>, <<" ","#","n">>, <<"n","@","n">>, <<"r","/","n","@","n">>,
          <<"r","/","n","/","n",":","l">>, <<"R",".","0","/","n","_","-",":","1",".","9">>,
          <<".",".","/","n">>, <<"r","/","n",".",".","n">>, <<"r","/","n",":",".","."  >>,
          <<"r","/","n",":">>, <<"r","/",":","n">>, <<"r","/","n",":",":","l">>,
          <<" ","r","/","n",":","l","\n">>}

\* strings handed to _validate_image_reference by a direct caller: every
\* string of at most MaxLen characters of the alphabet, and the longer inputs
ValidatorInputs ==
    UNION {[1..k -> ValidatorAlphabet] : k \in 0..MaxLen} \cup LongerInputs

\* a caller calls scanner._validate_image_reference(image_ref)
DirectValidate(r) ==
    /\ th[r].pc = "idle"
    /\ \E s \in ValidatorInputs :
         th' = [th EXCEPT ![r].pc = "done", ![r].kind = "validate", ![r].image_ref = s,
                          ![r].ret = IF ValidateImageReference(s) THEN "True" ELSE "False"]
    /\ UNCHANGED <<now, usec, active_scans, scan_metadata, app_patrol, spawned, resp>>

\* callers that only validate references
NextValidator == \E r \in Req : DirectValidate(r)

ValidatorSpec == Init /\ [][NextValidator]_vars

(* ------------------------ _calculate_risk_score ----------------------- *)

\* HalfSteps[k] is the smallest integer x with x / 10^8 >= 10^((2k - 1) / 400):
\* a number m in [1, 10) has round(200 * log10(m)) >= k exactly when
\* m * 10^8 >= HalfSteps[k]
HalfSteps ==
    <<
      100577307, 101741937, 102920053, 104111811, 105317369, 106536887, 107770526, 109018450,
      110280824, 111557816, 112849594, 114156331, 115478199, 116815373, 118168032, 119536353,
      120920519, 122320712, 123737119, 125169928, 126619327, 128085510, 129568670, 131069005,
      132586712, 134121994, 135675054, 137246097, 138835331, 140442969, 142069222, 143714306,
      145378439, 147061842, 148764738, 150487352, 152229914, 153992653, 155775804, 157579603,
      159404289, 161250103, 163117291, 165006101, 166916781, 168849586, 170804773, 172782599,
      174783327, 176807222, 178854553, 180925592, 183020611, 185139890, 187283709, 189452352,
      191646107, 193865264, 196110118, 198380966, 200678110, 203001852, 205352503, 207730373,
      210135777, 212569035, 215030468, 217520404, 220039171, 222587105, 225164542, 227771825,
      230409298, 233077312, 235776220, 238506380, 241268154, 244061907, 246888011, 249746839,
      252638772, 255564191, 258523484, 261517045, 264545270, 267608560, 270707321, 273841964,
      277012904, 280220563, 283465364, 286747738, 290068120, 293426951, 296824675, 300261743,
      303738610, 307255737, 310813591, 314412643, 318053369, 321736254, 325461784, 329230454,
      333042763, 336899216, 340800325, 344746607, 348738585, 352776787, 356861750, 360994014,
      365174128, 369402645, 373680126, 378007138, 382384254, 386812055, 391291128, 395822065,
      400405469, 405041946, 409732110, 414476585, 419275997, 424130984, 429042190, 434010264,
      439035866, 444119662, 449262325, 454464538, 459726989, 465050377, 470435406, 475882791,
      481393255, 486967526, 492606344, 498310456, 504080620, 509917598, 515822166, 521795105,
      527837207, 533949274, 540132115, 546386550, 552713408, 559113528, 565587758, 572136955,
      578761989, 585463737, 592243087, 599100939, 606038201, 613055793, 620154644, 627335696,
      634599901, 641948222, 649381632, 656901117, 664507673, 672202310, 679986046, 687859913,
      695824955, 703882228, 712032800, 720277752, 728618175, 737055176, 745589873, 754223396,
      762956892, 771791516, 780728441, 789768850, 798913942, 808164930, 817523038, 826989509,
      836565596, 846252569, 856051712, 865964324, 875991718, 886135224, 896396186, 906775965,
      917275936, 927897491, 938642037, 949511000, 960505819, 971627952, 982878874, 994260074
    >>

\* round(20 * math.log10(n), 1) in tenths, for 1 <= n < 10^9
Log10Tenths(n) ==
    LET d      == CHOOSE e \in 0..8 : 10^e <= n /\ n < 10^(e + 1)
        scaled == n * 10^(8 - d)
    IN  200 * d + Cardinality({k \in 1..Len(HalfSteps) : scaled >= HalfSteps[k]})

\* smaller of two numbers
Min(a, b) == IF a <= b THEN a ELSE b

\* lines 409-427: critical * 25.0 + high * 10.0 + medium * 3.0 + low * 1.0 over
\* the results
WeightedScore(results) ==
    LET idx == 1..Len(results)
        total_critical == Sum([k \in idx |-> results[k].severity_counts.critical])
        total_high     == Sum([k \in idx |-> results[k].severity_counts.high])
        total_medium   == Sum([k \in idx |-> results[k].severity_counts.medium])
        total_low      == Sum([k \in idx |-> results[k].severity_counts.low])
    IN  total_critical * 25 + total_high * 10 + total_medium * 3 + total_low * 1

\* the risk score with low findings left out of the sum
CalculateRiskScoreWithoutLow(results) ==
    IF results = <<>> THEN 0
    ELSE LET idx   == 1..Len(results)
             score == Sum([k \in idx |-> results[k].severity_counts.critical]) * 25
                      + Sum([k \in idx |-> results[k].severity_counts.high]) * 10
                      + Sum([k \in idx |-> results[k].severity_counts.medium]) * 3
         IN  IF score > 0 THEN Min(Log10Tenths(score + 1), 1000) ELSE 0

\* the risk score without the cap at 100.0
CalculateRiskScoreUncapped(results) ==
    IF results = <<>> THEN 0
    ELSE LET score == WeightedScore(results)
         IN  IF score > 0 THEN Log10Tenths(score + 1) ELSE 0

\* the risk score with every finding weighted 1
CalculateRiskScoreUnweighted(results) ==
    IF results = <<>> THEN 0
    ELSE LET idx   == 1..Len(results)
             score == Sum([k \in idx |-> results[k].severity_counts.critical])
                      + Sum([k \in idx |-> results[k].severity_counts.high])
                      + Sum([k \in idx |-> results[k].severity_counts.medium])
                      + Sum([k \in idx |-> results[k].severity_counts.low])
         IN  IF score > 0 THEN Min(Log10Tenths(score + 1), 1000) ELSE 0

\* RegistryBasedScanner._calculate_risk_score, in tenths (283 is 28.3):
\* round(min(20 * log10(score + 1), 100.0), 1) for a positive score; rounding
\* to one decimal and capping at 100.0 commute
CalculateRiskScore(results) ==
    IF results = <<>> THEN 0
    ELSE LET score == WeightedScore(results)
         IN  IF score > 0 THEN Min(Log10Tenths(score + 1), 1000) ELSE 0

\* the severity histograms of the results handed to a direct call
Histograms ==
    [critical : {0, 1, BigCount}, high : {0, 1}, medium : {0, 1}, low : {0, 1}]

\* the result lists handed to a direct call: none, one or two images
RiskResults ==
    {<<>>} \cup {<<[severity_counts |-> h]>> : h \in Histograms}
    \cup {<<[severity_counts |-> h], [severity_counts |-> g]>> : h, g \in Histograms}

\* a caller calls scanner._calculate_risk_score(results)
DirectRiskScore(r) ==
    /\ th[r].pc = "idle"
    /\ \E results \in RiskResults :
         th' = [th EXCEPT ![r].pc = "done", ![r].kind = "risk",
                          ![r].scan_results = results,
                          ![r].risk_score = CalculateRiskScore(results)]
    /\ UNCHANGED <<now, usec, active_scans, scan_metadata, app_patrol, spawned, resp>>

\* callers that only compute risk scores
NextRisk == \E r \in Req : DirectRiskScore(r)

RiskSpec == Init /\ [][NextRisk]_vars

(* ------------- sessions over images of one working directory --------- *)

\* the only caller of the run awaits scanner.start_scan for several valid
\* references, which are scanned in the one temporary directory of the session
StartWorkdirScan(r) ==
    /\ \A q \in Req : th[q].pc = "idle"
    /\ \E name \in NamesFor(r), targets \in WorkdirTargetLists :
         th' = [th EXCEPT ![r].pc = "start", ![r].kind = "start_scan",
                          ![r].name = name, ![r].targets = targets, ![r].sid = -r]
    /\ UNCHANGED <<now, usec, active_scans, scan_metadata, app_patrol, spawned, resp>>

NextWorkdir ==
    \/ Tick
    \/ \E r \in Req : StartWorkdirScan(r)
    \/ \E r \in Req : Register(r)
    \/ \E r \in Req : ValidateTargets(r)
    \/ \E r \in Req : ScanTargetAnyRun(r)
    \/ \E r \in Req : ScanTargetBlocks(r)
    \/ \E r \in Req : PersistResults(r)
    \/ \E r \in Req : SetCompleted(r)
    \/ \E r \in Req : Complete(r)
    \/ \E r \in Req : HandleFailure(r)

WorkdirSpec == Init /\ [][NextWorkdir]_vars

(* ---------------- direct calls of _store_scan_results ----------------- *)

\* result lists handed to _store_scan_results by a direct caller: what
\* _scan_single_image returns for "nginx" (two findings) and "repo/nginx"
\* (none)
DirectResults ==
    LET none == [x \in {} |-> x]
        a    == ScanSingleImage(TNginx, none, RunOk).result
        b    == ScanSingleImage(TRepo, none, RunClean).result
    IN  {<<>>, a, a \o b}

\* the scan ids of direct callers
DirectIds == {-q : q \in Req}

\* a caller awaits scanner._store_scan_results(scan_id, scan_name, results):
\* one timestamp, the metadata of the scan id when it is registered ({}
\* otherwise), INSERT OR REPLACE of the metadata row and of the rows of every
\* result into tables whose only key is the autoincrement id, commit; an
\* sqlite error is logged and nothing is committed
DirectStoreResults(r) ==
    /\ th[r].pc = "idle"
    /\ \E scan_id \in DirectIds, name \in Names, results \in DirectResults :
         LET ts       == [sec |-> now, us |-> usec]
             metadata == IF scan_id \in DOMAIN active_scans
                         THEN active_scans[scan_id].scan_metadata ELSE NoMetadata
         IN  \/ /\ scan_metadata' = Append(scan_metadata,
                                           MetadataRow(ts, name, results, metadata))
                /\ app_patrol' = app_patrol \o AllRows(ts, results)
                /\ active_scans' = LogAll(active_scans, scan_id,
                                          <<Entry("success", "Stored results", <<>>)>>)
                /\ th' = [th EXCEPT ![r].pc = "done", ![r].kind = "store",
                                    ![r].sid = scan_id, ![r].name = name,
                                    ![r].scan_results = results, ![r].stored = "ok"]
             \/ /\ active_scans' = LogAll(active_scans, scan_id,
                       <<Entry("error", "Failed to store results in database", <<>>)>>)
                /\ th' = [th EXCEPT ![r].pc = "done", ![r].kind = "store",
                                    ![r].sid = scan_id, ![r].name = name,
                                    ![r].scan_results = results, ![r].stored = "failed"]
                /\ UNCHANGED <<scan_metadata, app_patrol>>
    /\ usec' = usec + 1
    /\ UNCHANGED <<now, spawned, resp>>

\* callers that only store results
NextStore ==
    \/ Tick
    \/ \E r \in Req : DirectStoreResults(r)

StoreSpec == Init /\ [][NextStore]_vars

(* ------------------------- the delete endpoint ------------------------ *)

\* DELETE FROM table WHERE substr(column, 1, 19) = ?: the rows that stay
RECURSIVE SelectRows(_, _, _)
SelectRows(rows, column, deleted) ==
    IF rows = <<>> THEN <<>>
    ELSE (IF Prefix19(Head(rows)[column]) = deleted THEN <<>> ELSE <<Head(rows)>>)
         \o SelectRows(Tail(rows), column, deleted)

\* timestamp a is before timestamp b
Earlier(a, b) == a.sec < b.sec \/ (a.sec = b.sec /\ a.us < b.us)

\* SELECT MIN(DATE_ADDED) ... GROUP BY substr(DATE_ADDED, 1, 19): the first
\* timestamp of every group of finding rows
ScanDates ==
    LET dates == {app_patrol[k].DATE_ADDED : k \in 1..Len(app_patrol)}
    IN  {d \in dates : \A o \in dates : Prefix19(o) = Prefix19(d) => ~Earlier(o, d)}

\* f"scan_{hash(scan_date)}", the id the scan list gives the group
ListedId(scan_date) == [hash |-> scan_date]

\* an id that no scan of the list has
UnknownId == ListedId([sec |-> -1, us |-> 0])

\* DELETE /api/scans/<scan_id> sent by a caller whose store call returned:
\* find the group whose id is scan_id, take the first 15 characters of its
\* date, delete the rows of both tables whose first 19 characters equal them
DeleteScan(r) ==
    /\ th[r].pc = "done" /\ th[r].kind = "store"
    /\ \E scan_id \in {ListedId(d) : d \in ScanDates} \cup {UnknownId} :
         LET found == {d \in ScanDates : ListedId(d) = scan_id}
         IN  /\ th' = [th EXCEPT ![r].pc = "deleted", ![r].delete_id = <<scan_id>>]
             /\ IF found = {}
                THEN /\ resp' = [resp EXCEPT ![r] = "404 Scan not found"]
                     /\ UNCHANGED <<scan_metadata, app_patrol>>
                ELSE LET target_timestamp == Prefix15(CHOOSE d \in found : TRUE)
                     IN  /\ app_patrol' = SelectRows(app_patrol, "DATE_ADDED",
                                                     target_timestamp)
                         /\ scan_metadata' = SelectRows(scan_metadata, "scan_timestamp",
                                                        target_timestamp)
                         /\ resp' = [resp EXCEPT ![r] = "200 Scan deleted successfully"]
    /\ UNCHANGED <<now, usec, active_scans, spawned>>

\* callers that store results and delete scans
NextDelete ==
    \/ Tick
    \/ \E r \in Req : DirectStoreResults(r)
    \/ \E r \in Req : DeleteScan(r)

DeleteSpec == Init /\ [][NextDelete]_vars

(* ------------------------------ properties ---------------------------- *)

IsPrefix(a, b) == Len(a) <= Len(b) /\ SubSeq(b, 1, Len(a)) = a

\* request r is a scan session (a start_scan call), not a rejected request
\* and not a direct _scan_single_image call
IsSession(r) == th[r].kind \in {"http", "start_scan"} /\ th[r].pc \notin {"idle"}
                /\ ~(th[r].pc = "done" /\ th[r].ret = "none")

\* start_scan of session r has returned
Finished(r) == IsSession(r) /\ th[r].pc = "done"

\* the log of the session's scan id holds an entry of this level and message
\* about this argument
Logged(r, level, message, arg) ==
    \E k \in 1..Len(GetScanLogs(th[r].sid)) :
        GetScanLogs(th[r].sid)[k] = Entry(level, message, arg)

\* every string a request of the model can carry, and its stripped form
KnownStrings ==
    LET ts == DirectTargets \cup UNION {Range(l) : l \in TargetLists \cup DirectTargetLists}
    IN  ts \cup {Strip(t) : t \in ts}

\* the known strings the validator accepts
AcceptedRefs == {t \in KnownStrings : ValidateImageReference(t)}

\* C1: every subprocess run for an image reference carries a reference the
\* validator accepts, which is the stripped form of a target of that request;
\* a direct _scan_single_image call with a string that fails validation
\* spawns nothing at all, and a session spawns nothing for its invalid targets.
C1_SpawnOnlyAfterValidation ==
    \A r \in Req :
        /\ \A k \in 1..Len(spawned[r]) :
              spawned[r][k].tool # "docker context" =>
                 /\ spawned[r][k].image \in AcceptedRefs
                 /\ \/ /\ th[r].kind = "scan_image"
                       /\ spawned[r][k].image = Strip(th[r].image_ref)
                    \/ /\ IsSession(r)
                       /\ \E j \in 1..Len(th[r].targets) :
                             /\ th[r].targets[j] \in AcceptedRefs
                             /\ spawned[r][k].image = Strip(th[r].targets[j])
        /\ (th[r].kind = "scan_image" /\ th[r].image_ref \notin AcceptedRefs)
              => spawned[r] = <<>>
        /\ IsSession(r) =>
              \A j \in 1..Len(th[r].targets) :
                 th[r].targets[j] \notin AcceptedRefs =>
                    \A k \in 1..Len(spawned[r]) :
                       /\ spawned[r][k].image # th[r].targets[j]
                       /\ spawned[r][k].image # Strip(th[r].targets[j])

\* C1 witness: a direct call with the injection string has returned without
\* a subprocess while a session holding the same string among its targets has
\* pulled its valid target.
C1_Witness ==
      (\E r1, r2 \in Req :
          /\ th[r1].kind = "scan_image" /\ th[r1].pc = "done"
          /\ th[r1].image_ref = TInject /\ spawned[r1] = <<>>
          /\ IsSession(r2) /\ th[r2].targets = <<TPadded, TInject>>
          /\ \E k \in 1..Len(spawned[r2]) :
                spawned[r2][k] = Spawn("docker pull", Strip(TPadded), Strip(TPadded)))

\* C2: the status of a scan id only moves initializing -> running ->
\* completed | failed: it never goes backwards, never skips running, and a
\* completed or failed status never changes again.
C2_StatusOrder ==
    [][\A id \in DOMAIN active_scans :
          LET s == active_scans[id].status
              t == active_scans'[id].status
          IN  \/ t = s
              \/ s = "initializing" /\ t = "running"
              \/ s = "running" /\ t \in {"completed", "failed"}]_vars

\* C3: the scan_metadata table never holds two rows with the same
\* user_scan_name.
C3_UniqueScanNames ==
    \A j, k \in 1..Len(scan_metadata) :
        j # k => scan_metadata[j].user_scan_name # scan_metadata[k].user_scan_name

\* C4: two accepted start requests have distinct scan ids, hence separate
\* entries of active_scans.
C4_DistinctScanIds ==
    \A r1, r2 \in Req :
        (r1 # r2 /\ IsSession(r1) /\ IsSession(r2)) => th[r1].sid # th[r2].sid

\* the progress values start_scan assigns
ProgressValues == {0, 10, 90, 100} \cup 20..79

\* C5: the progress of a scan id is one of 0, 10, 20 + floor(60 * i / n), 90,
\* 100, stays within 0..100 and never decreases.
C5_ProgressMonotone ==
    [][\A id \in DOMAIN active_scans' :
          /\ active_scans'[id].progress \in ProgressValues
          /\ id \in DOMAIN active_scans =>
                active_scans'[id].progress >= active_scans[id].progress]_vars

\* C6: the log of a scan id is append-only: what get_scan_logs returns is a
\* prefix of what every later call returns.
C6_LogAppendOnly ==
    [][\A id \in DOMAIN active_scans :
          IsPrefix(GetScanLogs(id), GetScanLogs(id)')]_vars

\* C7: a session whose target list is empty or holds no valid reference has
\* ended with status failed and has spawned no subprocess.
C7_NoValidTargetFails ==
    \A r \in Req :
        (Finished(r) /\ ValidOf(th[r].targets) = <<>>) =>
            /\ th[r].ret = "False"
            /\ spawned[r] = <<>>
            /\ active_scans[th[r].sid].status = "failed"

\* C8: a session with k >= 1 valid targets, all scanned with a result, and m
\* invalid ones has ended with status completed and completed_targets = k,
\* and its log holds an error entry for every invalid target.
C8_AllValidSucceed ==
    \A r \in Req :
        LET valid == ValidOf(th[r].targets)
        IN  (Finished(r) /\ Len(valid) >= 1 /\ Len(th[r].scan_results) = Len(valid)) =>
               /\ active_scans[th[r].sid].status = "completed"
               /\ active_scans[th[r].sid].completed_targets = Len(valid)
               /\ \A j \in 1..Len(th[r].targets) :
                     ~ValidateImageReference(th[r].targets[j]) =>
                        Logged(r, "error", "Invalid image reference", th[r].targets[j])

\* the image references of the docker pull commands request r has run
Pulled(r) ==
    LET IsPull(s) == s.tool = "docker pull"
        pulls     == SelectSeq(spawned[r], IsPull)
    IN  [k \in 1..Len(pulls) |-> pulls[k].image]

\* C9: a session in which _scan_single_image returned no result for some valid
\* target has logged that failure, has counted in completed_targets only the
\* targets with a result, has gone on to pull every valid target in list order
\* and has ended with status completed, even when no target gave a result.
C9_FailedTargetSkipped ==
    \A r \in Req :
        LET valid == ValidOf(th[r].targets)
        IN  (Finished(r) /\ th[r].i = Len(valid) /\ Len(th[r].scan_results) < Len(valid)) =>
               /\ th[r].ret = "True"
               /\ Pulled(r) = [k \in 1..Len(valid) |-> Strip(valid[k])]
               /\ active_scans[th[r].sid].status = "completed"
               /\ active_scans[th[r].sid].completed_targets = Len(th[r].scan_results)
               /\ \E k \in 1..Len(valid) : Logged(r, "error", "Failed to scan", valid[k])

\* C10: a session whose body raised an exception has returned False, and its
\* entry shows status failed, scan_status FAILED with the duration so far and
\* an error log entry.
C10_ExceptionHandled ==
    \A r \in Req :
        (Finished(r) /\ th[r].exc # "none") =>
            /\ th[r].ret = "False"
            /\ active_scans[th[r].sid].status = "failed"
            /\ active_scans[th[r].sid].scan_metadata.scan_status = "FAILED"
            /\ active_scans[th[r].sid].scan_metadata.scan_duration \in 0..MaxTime
            /\ Logged(r, "error", "Scan failed", <<>>)

\* C11: a session whose _store_scan_results call failed has ended with
\* status completed and progress 100, and its log holds the error entry of
\* the store failure.
C11_StoreFailureNotFatal ==
    \A r \in Req :
        (Finished(r) /\ th[r].stored = "failed") =>
            /\ th[r].ret = "True"
            /\ active_scans[th[r].sid].status = "completed"
            /\ active_scans[th[r].sid].progress = 100
            /\ Logged(r, "error", "Failed to store results in database", <<>>)

\* the start endpoint answered request r with an error for an empty target
\* list or a name already stored
Rejected(r) ==
    resp[r] \in {"400 No targets provided", "400 Scan name already exists"}

\* C12: a start request rejected for an empty target list or a duplicate
\* name is answered at once and never executed: the rejecting step changes
\* neither active_scans, nor the tables, nor the spawned subprocesses; the
\* request gets no scan id and no scan thread, and takes no step afterwards.
C12_RejectedNeverExecuted ==
    /\ [](\A r \in Req :
            Rejected(r) =>
               /\ th[r].pc = "done" /\ th[r].ret = "none" /\ th[r].sid = 0
               /\ th[r].stored = "none" /\ spawned[r] = <<>>
               /\ \A id \in DOMAIN active_scans :
                     \E q \in Req : ~Rejected(q) /\ IsSession(q) /\ th[q].sid = id)
    /\ [][\A r \in Req :
            Rejected(r)' =>
               IF Rejected(r)
               THEN th'[r] = th[r] /\ spawned'[r] = spawned[r] /\ resp'[r] = resp[r]
               ELSE UNCHANGED <<active_scans, scan_metadata, app_patrol, spawned>>]_vars

\* C12 witness: a request got the duplicate-name answer because a session of
\* that name had stored its row.
C12_Witness ==
    \E r \in Req :
        /\ resp[r] = "400 Scan name already exists"
        /\ \E k \in 1..Len(scan_metadata) : scan_metadata[k].user_scan_name = th[r].name

\* C13: a _store_scan_results call that commits adds one scan_metadata row
\* and the app_patrol rows of every result, and all of them carry one
\* timestamp: the clock value at that call.
C13_OneTimestampPerStore ==
    [][Len(scan_metadata') > Len(scan_metadata) =>
          LET n == Len(scan_metadata)
              a == Len(app_patrol)
              m == scan_metadata'[n + 1]
          IN  /\ Len(scan_metadata') = n + 1
              /\ SubSeq(scan_metadata', 1, n) = scan_metadata
              /\ Len(app_patrol') >= a + m.image_count
              /\ SubSeq(app_patrol', 1, a) = app_patrol
              /\ m.scan_timestamp = [sec |-> now, us |-> usec]
              /\ \A k \in (a + 1)..Len(app_patrol') :
                    app_patrol'[k].DATE_ADDED = m.scan_timestamp]_vars

\* C13 witness: the store holds a metadata row together with a summary row
\* and a finding row of its timestamp.
C13_Witness ==
    \E j \in 1..Len(scan_metadata) :
        \E k1, k2 \in 1..Len(app_patrol) :
            /\ app_patrol[k1].kind = "summary" /\ app_patrol[k2].kind = "finding"
            /\ app_patrol[k1].DATE_ADDED = scan_metadata[j].scan_timestamp
            /\ app_patrol[k2].DATE_ADDED = scan_metadata[j].scan_timestamp

\* the rows of a table that tell the same thing: equal in every column but
\* the timestamp
SameButTimestamp(row1, row2, column) ==
    [row1 EXCEPT ![column] = 0] = [row2 EXCEPT ![column] = 0]

\* C14: after two _store_scan_results calls with the same scan id, name and
\* results, scan_metadata holds one row of that name and app_patrol holds no
\* two rows that differ only in the timestamp.
C14_StoreIdempotent ==
    \A r1, r2 \in Req :
        (/\ r1 # r2
         /\ th[r1].kind = "store" /\ th[r1].stored = "ok"
         /\ th[r2].kind = "store" /\ th[r2].stored = "ok"
         /\ th[r1].sid = th[r2].sid /\ th[r1].name = th[r2].name
         /\ th[r1].scan_results = th[r2].scan_results) =>
            /\ Cardinality({k \in 1..Len(scan_metadata) :
                               scan_metadata[k].user_scan_name = th[r1].name}) = 1
            /\ \A j, k \in 1..Len(app_patrol) :
                  j # k => ~SameButTimestamp(app_patrol[j], app_patrol[k], "DATE_ADDED")

\* C15: a started session never waits without bound: its thread has returned
\* or is at a step it takes by itself, never inside a wait for a subprocess
\* that nothing ends (from there the session reaches neither completed nor
\* failed).
C15_NoUnboundedWait ==
    \A r \in Req :
        IsSession(r) =>
            th[r].pc \in {"start", "mkdtemp", "loop", "set_completed",
                          "set_progress_100", "except", "done"}

\* request r is a returned direct call of _validate_image_reference
Validated(r) == th[r].kind = "validate" /\ th[r].pc = "done"

\* the string holds one of these characters at some position
HasChar(s, chars) == \E i \in 1..Len(s) : s[i] \in chars

\* C16 as stated: the validator returns false for every string that holds a
\* shell metacharacter or a control character at any position
C16_MetaOrControlRejected ==
    \A r \in Req :
        (Validated(r) /\ HasChar(th[r].image_ref, MetaChars \cup ControlChars))
            => th[r].ret = "False"

\* C16: the validator returns false for every string that holds a shell
\* metacharacter at any position, and for every string that still holds a
\* control character once its surrounding whitespace is trimmed
C16_MetaOrInnerControlRejected ==
    \A r \in Req :
        (Validated(r) /\ (\/ HasChar(th[r].image_ref, MetaChars)
                          \/ HasChar(Strip(th[r].image_ref), ControlChars)))
            => th[r].ret = "False"

\* one call rejected a string with a metacharacter between letters, another a
\* string with a newline between letters
C16_Witness ==
    \E r, q \in Req :
        /\ Validated(r) /\ th[r].image_ref = <<"n", ";", "n">> /\ th[r].ret = "False"
        /\ Validated(q) /\ th[q].image_ref = <<"n", "\n", "n">> /\ th[q].ret = "False"

\* the characters [A-Za-z0-9._-] of a component
CompChars == Range(UpperChars) \cup Range(LowerChars) \cup DigitChars \cup {".", "_", "-"}

\* a non-empty string of component characters
IsComponent(s) == Len(s) > 0 /\ \A i \in 1..Len(s) : s[i] \in CompChars

\* registry(/namespace)*/repo: two or more components joined by slashes
IsPath(s) ==
    /\ Len(s) > 0
    /\ \A i \in 1..Len(s) : s[i] \in CompChars \cup {"/"}
    /\ s[1] # "/" /\ s[Len(s)] # "/"
    /\ ~Contains(s, <<"/", "/">>)
    /\ Contains(s, <<"/">>)

\* registry(/namespace)*/repo(:tag|@digest)?
IsRefForm(s) ==
    \/ IsPath(s)
    \/ \E k \in 2..(Len(s) - 1) :
         /\ s[k] \in {":", "@"}
         /\ IsPath(SubSeq(s, 1, k - 1))
         /\ IsComponent(SubSeq(s, k + 1, Len(s)))

\* C17 as stated: the validator returns true for every string of the form
\* registry(/namespace)*/repo(:tag|@digest)? with components of [A-Za-z0-9._-]
C17_RefFormAccepted ==
    \A r \in Req :
        (Validated(r) /\ IsRefForm(th[r].image_ref)) => th[r].ret = "True"

\* C17: the validator returns true for every string of that form which does
\* not hold two dots in a row
C17_RefFormWithoutDotsAccepted ==
    \A r \in Req :
        (Validated(r) /\ IsRefForm(th[r].image_ref)
                      /\ ~Contains(th[r].image_ref, <<".", ".">>))
            => th[r].ret = "True"

\* one call accepted registry/namespace/repo:tag, another registry/repo@digest
C17_Witness ==
    \E r, q \in Req :
        /\ Validated(r) /\ th[r].image_ref = <<"r","/","n","/","n",":","l">>
        /\ IsRefForm(th[r].image_ref) /\ th[r].ret = "True"
        /\ Validated(q) /\ th[q].image_ref = <<"r","/","n","@","n">>
        /\ IsRefForm(th[q].image_ref) /\ th[q].ret = "True"

\* the trimmed string is one the validator has to reject
RejectedForm(t) ==
    \/ t = <<>>
    \/ StartsWith(t, <<"#">>)
    \/ Contains(t, <<".", ".">>)
    \/ StartsWith(t, <<"/">>)
    \/ StartsWith(t, <<"f","i","l","e",":">>)
    \/ \E f \in {"f", "F"} : Contains(t, <<"%","2",f>>) \/ Contains(t, <<"%","2","5","2",f>>)
    \/ StartsWith(t, <<":">>)
    \/ Contains(t, <<":", ":">>)
    \/ EndsWith(t, <<":">>)

\* C18: the validator's result for a string is its result for the trimmed
\* string, and it is false when the trimmed string is empty, starts with '#',
\* '/', 'file:' or ':', contains '..', '::' or an encoded slash in either
\* letter case, or ends with ':'
C18_TrimmedResult ==
    \A r \in Req :
        Validated(r) =>
            /\ (th[r].ret = "True") = ValidateImageReference(Strip(th[r].image_ref))
            /\ RejectedForm(Strip(th[r].image_ref)) => th[r].ret = "False"

\* one call accepted a reference padded with a blank and a newline, another
\* rejected an upper-case encoded slash
C18_Witness ==
    \E r, q \in Req :
        /\ Validated(r) /\ th[r].image_ref = <<" ","r","/","n",":","l","\n">>
        /\ th[r].ret = "True"
        /\ Validated(q) /\ th[q].image_ref = <<"n","%","2","F","n">>
        /\ RejectedForm(Strip(th[q].image_ref)) /\ th[q].ret = "False"

\* request r is a returned direct call of _calculate_risk_score
RiskScored(r) == th[r].kind = "risk" /\ th[r].pc = "done"

\* histogram g holds every finding of histogram h
HistogramLeq(h, g) ==
    /\ h.critical <= g.critical
    /\ h.high <= g.high
    /\ h.medium <= g.medium
    /\ h.low <= g.low

\* results b hold every finding of results a: the images of a with the same
\* or more findings, and possibly further images
SupersetOfFindings(a, b) ==
    /\ Len(a) <= Len(b)
    /\ \A k \in 1..Len(a) : HistogramLeq(a[k].severity_counts, b[k].severity_counts)

\* C19: the risk score is 0.0 exactly when the weighted sum critical * 25 +
\* high * 10 + medium * 3 + low * 1 over all results is 0, and it is strictly
\* positive otherwise
C19_ZeroExactlyWhenSumZero ==
    \A r \in Req :
        RiskScored(r) =>
            /\ (th[r].risk_score = 0) = (WeightedScore(th[r].scan_results) = 0)
            /\ WeightedScore(th[r].scan_results) # 0 => th[r].risk_score > 0

\* one call scored an image without findings 0.0, another scored a single
\* low finding 6.0
C19_Witness ==
    \E r, q \in Req :
        /\ RiskScored(r)
        /\ th[r].scan_results =
               <<[severity_counts |-> [critical |-> 0, high |-> 0, medium |-> 0, low |-> 0]]>>
        /\ th[r].risk_score = 0
        /\ RiskScored(q)
        /\ th[q].scan_results =
               <<[severity_counts |-> [critical |-> 0, high |-> 0, medium |-> 0, low |-> 1]]>>
        /\ th[q].risk_score = 60

\* C20: the risk score of results that hold every finding of other results is
\* not below the score of those, and every risk score lies within 0.0 and
\* 100.0
C20_MonotoneAndBounded ==
    /\ \A r \in Req : RiskScored(r) => th[r].risk_score \in 0..1000
    /\ \A r, q \in Req :
         (RiskScored(r) /\ RiskScored(q)
            /\ SupersetOfFindings(th[r].scan_results, th[q].scan_results))
            => th[r].risk_score <= th[q].risk_score

\* one call scored a single critical finding 28.3, another scored results
\* holding that finding among thousands 100.0
C20_Witness ==
    \E r, q \in Req :
        /\ RiskScored(r) /\ RiskScored(q)
        /\ th[r].scan_results =
               <<[severity_counts |-> [critical |-> 1, high |-> 0, medium |-> 0, low |-> 0]]>>
        /\ th[r].risk_score = 283
        /\ Len(th[q].scan_results) = 2
        /\ th[q].scan_results[1].severity_counts.critical = BigCount
        /\ SupersetOfFindings(th[r].scan_results, th[q].scan_results)
        /\ th[q].risk_score = 1000

\* the four severity tiers, most severe first
Tiers == <<"critical", "high", "medium", "low">>

\* the results hold one finding in all, of tier Tiers[t]
OneFinding(results, t) ==
    /\ results # <<>>
    /\ \A u \in 1..Len(Tiers) :
         Sum([k \in 1..Len(results) |-> results[k].severity_counts[Tiers[u]]])
             = IF u = t THEN 1 ELSE 0

\* C21: results holding a single finding score above 0.0, and above results
\* holding a single finding of any less severe tier: critical scores above
\* high, high above medium, medium above low
C21_SeverityOrdering ==
    \A r \in Req : \A t \in 1..Len(Tiers) :
        (RiskScored(r) /\ OneFinding(th[r].scan_results, t))
            => /\ th[r].risk_score > 0
               /\ \A q \in Req : \A u \in (t + 1)..Len(Tiers) :
                    (RiskScored(q) /\ OneFinding(th[q].scan_results, u))
                        => th[r].risk_score > th[q].risk_score

\* one call scored a single high finding 20.8, another a single medium
\* finding 12.0
C21_Witness ==
    \E r, q \in Req :
        /\ RiskScored(r) /\ OneFinding(th[r].scan_results, 2) /\ th[r].risk_score = 208
        /\ RiskScored(q) /\ OneFinding(th[q].scan_results, 3) /\ th[q].risk_score = 120

\* the steps of _scan_single_image, in the order of the code
Steps == <<"docker context", "docker pull", "syft", "grype">>

\* C22: the subprocesses one _scan_single_image call spawns are the first
\* steps of the order context, pull, SBOM generator, matcher; the SBOM
\* generator is spawned only when the pull succeeded, the matcher only when
\* the SBOM generator succeeded and the SBOM file is there and not empty; when
\* the pull, the SBOM generator or the matcher fails the call returns no
\* result and the failed step is the last one spawned
C22_StepsGated ==
    [][\A r \in Req :
         spawned'[r] # spawned[r] =>
            LET new   == SubSeq(spawned'[r], Len(spawned[r]) + 1, Len(spawned'[r]))
                tools == [k \in 1..Len(new) |-> new[k].tool]
                e     == th'[r].run
                path  == SbomFile(new[2].image)
                none  == IF th'[r].kind = "scan_image" THEN th'[r].result = <<>>
                         ELSE th'[r].scan_results = th[r].scan_results
            IN  /\ IsPrefix(spawned[r], spawned'[r])
                /\ Len(tools) >= 2 /\ IsPrefix(tools, Steps)
                /\ Len(tools) >= 3 => e.pull = "ok"
                /\ Len(tools) = 4 =>
                     /\ e.pull = "ok" /\ e.syft = "ok"
                     /\ path \in DOMAIN th'[r].files
                     /\ th'[r].files[path].kind # "empty"
                /\ e.pull # "ok" => none /\ Len(tools) = 2
                /\ (e.pull = "ok" /\ e.syft # "ok") => none /\ Len(tools) = 3
                /\ (e.pull = "ok" /\ e.syft = "ok" /\ e.grype # "ok" /\ Len(tools) = 4)
                     => none
                /\ (e.pull = "ok" /\ e.syft = "ok" /\ Len(tools) = 3)
                     => none /\ (path \notin DOMAIN th'[r].files
                                 \/ th'[r].files[path].kind = "empty")]_vars

\* one direct call stopped after a failed pull, another after the matcher
\* failed
C22_Witness ==
    \E r, q \in Req :
        /\ th[r].kind = "scan_image" /\ th[r].pc = "done" /\ th[r].run.pull = "fail"
        /\ Len(spawned[r]) = 2 /\ th[r].result = <<>>
        /\ th[q].kind = "scan_image" /\ th[q].pc = "done" /\ th[q].run = RunGrypeFails
        /\ Len(spawned[q]) = 4 /\ th[q].result = <<>>

\* request r is a returned direct call of _scan_single_image
ImageScanned(r) == th[r].kind = "scan_image" /\ th[r].pc = "done"

\* the matcher ran for the reference of call r and left no output file, or
\* one that is not JSON
MatcherOutputUnusable(r) ==
    LET path == GrypeOutputFile(Strip(th[r].image_ref))
    IN  /\ Len(spawned[r]) = Len(Steps)
        /\ th[r].run.grype = "ok"
        /\ path \notin DOMAIN th[r].files \/ th[r].files[path].kind # "json"

\* C23: when the matcher's output file is missing or is not JSON, the
\* _scan_single_image call yields no result, so that the image counts as a
\* failed target
C23_UnusableOutputYieldsNoResult ==
    \A r \in Req : (ImageScanned(r) /\ MatcherOutputUnusable(r)) => th[r].result = <<>>

\* every result a _scan_single_image call of request r returned
ReturnedResults(r) ==
    IF th[r].kind = "scan_image" THEN Range(th[r].result) ELSE Range(th[r].scan_results)

\* number of listed findings of the result whose lower-cased severity is sev
Listed(res, sev) ==
    Cardinality({k \in 1..Len(res.vuln_details) : Lower(res.vuln_details[k].severity) = sev})

C25_MetricsAreSums ==
    [][\A r \in Req :
         (th[r].pc = "loop" /\ th'[r].pc = "set_completed" /\ th'[r].stored = "ok") =>
            LET m   == scan_metadata'[Len(scan_metadata')]
                res == th[r].scan_results
                idx == 1..Len(res)
            IN  /\ Len(scan_metadata') = Len(scan_metadata) + 1
                /\ m.total_packages_scanned = Sum([k \in idx |-> res[k].packages])
                /\ m.total_vulnerabilities_found = Sum([k \in idx |-> res[k].vulnerabilities])
                /\ m.critical_count = Sum([k \in idx |-> res[k].severity_counts.critical])
                /\ m.high_count = Sum([k \in idx |-> res[k].severity_counts.high])
                /\ m.medium_count = Sum([k \in idx |-> res[k].severity_counts.medium])
                /\ m.low_count = Sum([k \in idx |-> res[k].severity_counts.low])
                /\ m.exploitable_count = Sum([k \in idx |-> res[k].exploitable_count])
                /\ m.image_count = Len(res)
                /\ m.image_count = active_scans'[th[r].sid].completed_targets]_vars

\* two different valid references of one session never have the same SBOM
\* file name or the same matcher-output file name
FileNamesDistinct ==
    \A r \in Req : \A i, j \in 1..Len(th[r].valid_targets) :
        LET a == Strip(th[r].valid_targets[i])
            b == Strip(th[r].valid_targets[j])
        IN  a # b => SbomFile(a) # SbomFile(b) /\ GrypeOutputFile(a) # GrypeOutputFile(b)

\* the result a session adds for an image is read from the files the tools
\* wrote for that image: its package count is that of the SBOM written for it
\* (0 when that is not JSON) and its vulnerability count that of the matcher
\* output written for it (0 when none or no JSON was written)
ReadsOwnFiles ==
    \A r \in Req :
        (IsSession(r) /\ Len(th'[r].scan_results) = Len(th[r].scan_results) + 1) =>
            LET res == th'[r].scan_results[Len(th'[r].scan_results)]
                e   == th'[r].run
            IN  /\ e.sbom \in {"json", "garbage"}
                /\ res.packages = IF e.sbom = "json" THEN e.artifacts ELSE 0
                /\ res.vulnerabilities = IF e.gout = "json" THEN Len(e.matches) ELSE 0

\* C26: two different valid references of one session never have the same
\* SBOM file name or the same matcher-output file name, and the files of one
\* image are never read on behalf of another
C26_FilesNotShared == []FileNamesDistinct /\ [][ReadsOwnFiles]_vars

\* C27: every snapshot get_scan_progress returns with status completed has
\* progress 100
C27_CompletedMeansFull ==
    \A scan_id \in DOMAIN active_scans :
        \A snapshot \in Range(GetScanProgress(scan_id)) :
            snapshot.status = "completed" => snapshot.progress = 100

\* C28: once the start endpoint has answered request r with its scan id,
\* get_scan_progress finds that id and get_scan_logs reads the logs of its
\* ScanProgress
C28_StartedIsFound ==
    \A r \in Req :
        resp[r] = "200 started" =>
            /\ GetScanProgress(th[r].sid) # <<>>
            /\ th[r].sid \in DOMAIN active_scans
            /\ GetScanLogs(th[r].sid) = active_scans[th[r].sid].logs

\* C29: for every finding row there is exactly one metadata row with the same
\* 19-character timestamp prefix, and that row carries the full timestamp of
\* the finding row, that is, it was written by the same _store_scan_results
\* call
C29_OneMetadataRowPerPrefix ==
    \A a \in 1..Len(app_patrol) :
        LET same == {k \in 1..Len(scan_metadata) :
                        Prefix19(scan_metadata[k].scan_timestamp)
                            = Prefix19(app_patrol[a].DATE_ADDED)}
        IN  /\ Cardinality(same) = 1
            /\ \A k \in same : scan_metadata[k].scan_timestamp = app_patrol[a].DATE_ADDED

\* the rows of a table that do not belong to the scan of this date
RECURSIVE RowsOfOthers(_, _, _)
RowsOfOthers(rows, column, scan_date) ==
    IF rows = <<>> THEN <<>>
    ELSE (IF Prefix19(Head(rows)[column]) = Prefix19(scan_date) THEN <<>>
          ELSE <<Head(rows)>>)
         \o RowsOfOthers(Tail(rows), column, scan_date)

\* C30: a delete request for the id of a listed scan removes the metadata row
\* and every finding row of that scan and leaves all other rows as they were;
\* a delete request for an id of no scan changes nothing and is answered
\* with not found
C30_DeleteRemovesScan ==
    [][\A r \in Req :
         (th[r].pc = "done" /\ th'[r].pc = "deleted") =>
            LET scan_id == th'[r].delete_id[1]
            IN  IF \E d \in ScanDates : ListedId(d) = scan_id
                THEN /\ app_patrol' = RowsOfOthers(app_patrol, "DATE_ADDED", scan_id.hash)
                     /\ scan_metadata' =
                            RowsOfOthers(scan_metadata, "scan_timestamp", scan_id.hash)
                     /\ Len(app_patrol') < Len(app_patrol)
                ELSE /\ UNCHANGED <<app_patrol, scan_metadata>>
                     /\ resp'[r] = "404 Scan not found"]_vars

====
